---- MODULE Spec2Model ----
(***************************************************************************)
(* Model of FlowCheckPointXblock (flow_control/flow.py): the block's       *)
(* content fields, the learner's recorded scores, and the two entry points *)
(* that carry logic, validate_field_data and condition_status_handler.     *)
(*                                                                         *)
(* Text fields are sequences of one-character strings; the model starts    *)
(* from a block whose text fields were saved empty.  Scores are integers   *)
(* (0 <= correct <= total), so Python 2's "/" on them is floor division.   *)
(* An exception that leaves a handler is the response value Raised(..).    *)
(* One request is pending at a time: fields and scores change between      *)
(* requests, never while a response is being produced.                     *)
(***************************************************************************)
EXTENDS Integers, Sequences, FiniteSets, TLC

VARIABLES
    condition,          \* field "condition"
    operator,           \* field "operator"
    ref_value,          \* field "ref_value"
    problem_id,         \* field "problem_id"
    list_of_problems,   \* field "list_of_problems"
    scores,             \* what ScoresClient holds for the learner: id -> Score or None
    problems,           \* the list get_condition_status passed on in the pending request
    compared,           \* the arguments compare_scores received in the pending request
    response,           \* the pending response of condition_status_handler
    validation          \* the pending result of validate_field_data

vars == <<condition, operator, ref_value, problem_id, list_of_problems,
          scores, problems, compared, response, validation>>

fields == <<condition, operator, ref_value, problem_id, list_of_problems>>

-----------------------------------------------------------------------------
(* Bounds *)

MaxTotal == 2          \* largest "total" of a recorded score
MaxProblems == 3       \* longest list of problem ids an author enters
MaxCompareTotal == 4   \* largest "total" in the comparison specification
MaxTab == 2            \* largest tab_to an author enters

-----------------------------------------------------------------------------
(* Values *)

None == [kind |-> "None"]
Score(c, t) == [kind |-> "Score", correct |-> c, total |-> t]
Raised(e) == [kind |-> "Raised", exception |-> e]
Returned(v) == [kind |-> "Returned", value |-> v]
NoCall == [kind |-> "NoCall"]
NoResponse == [kind |-> "NoResponse"]
NoValidation == [kind |-> "NoValidation"]
Validated(d, msgs) == [kind |-> "Validated", data |-> d, messages |-> msgs]
Compared(c, t) == [kind |-> "Compared", correct |-> c, total |-> t]
JsonResponse(st) == [kind |-> "Json", success |-> TRUE, status |-> st]

GradeOfAProblem == "Grade of a problem"
AverageOfAList == "Average grade of a list of problems"
conditions_generator == {GradeOfAProblem, AverageOfAList}

operators_generator ==
    {"equal to", "not equal to", "less than or equal to", "less than",
     "greater than or equal to", "greater than"}

RefMin == 0
RefMax == 100

ErrTab == "Tab to redirect to must be greater than zero"
ErrRef == "Score percentage field must be an integer number between 0 and 100"

-----------------------------------------------------------------------------
(* validate_field_data *)

\* the second check chained to the first with "elif"
validate_field_data_elif(data) ==
    IF data.tab_to <= 0 THEN {ErrTab}
    ELSE IF data.ref_value < RefMin \/ data.ref_value > RefMax THEN {ErrRef}
    ELSE {}

validate_field_data(data) ==
    (IF data.tab_to <= 0 THEN {ErrTab} ELSE {})
    \cup
    (IF data.ref_value < RefMin \/ data.ref_value > RefMax THEN {ErrRef} ELSE {})

-----------------------------------------------------------------------------
(* compare_scores *)

\* (correct / total) * 100 on Python 2 integers
Percentage(correct, total) == (correct \div total) * 100

\* 'greater than' compared with >=
compare_scores_ge(op, ref, correct, total) ==
    IF total # 0
    THEN LET percentage == Percentage(correct, total) IN
         CASE op = "equal to" -> percentage = ref
           [] op = "not equal to" -> percentage # ref
           [] op = "less than or equal to" -> percentage <= ref
           [] op = "greater than or equal to" -> percentage >= ref
           [] op = "less than" -> percentage < ref
           [] op = "greater than" -> percentage >= ref
           [] OTHER -> FALSE
    ELSE FALSE

compare_scores(op, ref, correct, total) ==
    IF total # 0
    THEN LET percentage == Percentage(correct, total) IN
         CASE op = "equal to" -> percentage = ref
           [] op = "not equal to" -> percentage # ref
           [] op = "less than or equal to" -> percentage <= ref
           [] op = "greater than or equal to" -> percentage >= ref
           [] op = "less than" -> percentage < ref
           [] op = "greater than" -> percentage > ref
           [] OTHER -> FALSE
    ELSE FALSE

-----------------------------------------------------------------------------
(* str.split() *)

Whitespace == {" ", "\n", "\t"}

RECURSIVE SplitFrom(_, _, _)
SplitFrom(s, word, out) ==
    IF s = <<>>
    THEN IF word = <<>> THEN out ELSE Append(out, word)
    ELSE IF Head(s) \in Whitespace
         THEN SplitFrom(Tail(s), <<>>, IF word = <<>> THEN out ELSE Append(out, word))
         ELSE SplitFrom(Tail(s), Append(word, Head(s)), out)

split(s) == SplitFrom(s, <<>>, <<>>)

-----------------------------------------------------------------------------
(* condition_on_problem_list *)

\* scores_client.get(usage key of the problem): the recorded Score, or None
ScoresGet(db, problem) == IF problem \in DOMAIN db THEN db[problem] ELSE None

\* filter(None, map(scores_client.get, usages_keys))
FetchedScores(db, probs) ==
    LET got == [i \in 1..Len(probs) |-> ScoresGet(db, probs[i])]
    IN SelectSeq(got, LAMBDA sc : sc # None)

\* reduce(lambda x, y: x.attr + y.attr, seq) with acc the value reduced so far:
\* the first call adds two Scores' attributes and yields a number, a further
\* call reads .attr of that number
Number(n) == [kind |-> "Number", value |-> n]

RECURSIVE ReduceFrom(_, _, _)
ReduceFrom(acc, rest, attr) ==
    IF rest = <<>> THEN acc
    ELSE IF acc.kind # "Score" THEN Raised("AttributeError")
    ELSE ReduceFrom(Number(acc[attr] + Head(rest)[attr]), Tail(rest), attr)

reduce(seq, attr) == ReduceFrom(Head(seq), Tail(seq), attr)

scores_reducible_length == 2

\* the arguments condition_on_problem_list hands to compare_scores,
\* or the exception it raises before reaching that call
Aggregate(fetched) ==
    IF Len(fetched) >= scores_reducible_length
    THEN LET correct == reduce(fetched, "correct")
             total == reduce(fetched, "total")
         IN IF correct.kind = "Raised" THEN correct
            ELSE IF total.kind = "Raised" THEN total
            ELSE Compared(correct.value, total.value)
    ELSE IF Len(fetched) = 1
         THEN Compared(fetched[1].correct, fetched[1].total)
         ELSE Compared(0, 0)

condition_on_problem_list(db, op, ref, probs) ==
    LET args == Aggregate(FetchedScores(db, probs))
    IN IF args.kind = "Raised" THEN args
       ELSE Returned(compare_scores(op, ref, args.correct, args.total))

-----------------------------------------------------------------------------
(* get_condition_status *)

\* the second "if" written as the "else" of the first
SelectedProblems_else(cond, pid, lop) ==
    IF cond = GradeOfAProblem THEN split(pid) ELSE split(lop)

\* the list get_condition_status hands to condition_on_problem_list
SelectedProblems(cond, pid, lop) ==
    LET p0 == <<>>
        p1 == IF cond = GradeOfAProblem THEN split(pid) ELSE p0
        p2 == IF cond = AverageOfAList THEN split(lop) ELSE p1
    IN p2

get_condition_status(cond, pid, lop, db, op, ref) ==
    condition_on_problem_list(db, op, ref, SelectedProblems(cond, pid, lop))

\* the response the handler's caller receives
HandlerResponse(cond, pid, lop, db, op, ref) ==
    LET st == get_condition_status(cond, pid, lop, db, op, ref)
    IN IF st.kind = "Raised" THEN st ELSE JsonResponse(st.value)

-----------------------------------------------------------------------------
(* Inputs *)

ProblemIds == {<<"a">>, <<"b">>}

Conditions == conditions_generator \cup {"Unknown condition"}
Operators == operators_generator \cup {"unknown operator"}
RefValues == {0, 33, 50, 100}
AllRefValues == RefMin..RefMax
DataRefValues == (RefMin - 1)..(RefMax + 1)
TabValues == (0 - 1)..MaxTab

ScoreValues(maxTotal) ==
    {Score(p[1], p[2]) : p \in {q \in (0..maxTotal) \X (0..maxTotal) : q[1] <= q[2]}}

RECURSIVE Join(_, _)
Join(ids, seps) ==
    IF ids = <<>> THEN <<>>
    ELSE IF Len(ids) = 1 THEN ids[1]
    ELSE ids[1] \o seps[1] \o Join(Tail(ids), Tail(seps))

\* every list of at most n ids joined by separators drawn from Seps
JoinedLists(n, Seps) ==
    {<<>>} \cup
    UNION {{Join(ids, seps) : ids \in [1..k -> ProblemIds], seps \in [1..(k - 1) -> Seps]}
           : k \in 1..n}

LineBreak == <<"\n">>
Comma == <<",">>
CommaSpace == <<",", " ">>
Separators == {Comma, LineBreak, CommaSpace}

LineLists == JoinedLists(MaxProblems, {LineBreak})
SeparatedLists == JoinedLists(MaxProblems, Separators)

-----------------------------------------------------------------------------
(* Actions *)

Idle == response = NoResponse /\ validation = NoValidation

SetCondition(C) ==
    /\ Idle
    /\ \E c \in C : condition' = c
    /\ UNCHANGED <<operator, ref_value, problem_id, list_of_problems,
                   scores, problems, compared, response, validation>>

SetOperator(O) ==
    /\ Idle
    /\ \E o \in O : operator' = o
    /\ UNCHANGED <<condition, ref_value, problem_id, list_of_problems,
                   scores, problems, compared, response, validation>>

SetRefValue(R) ==
    /\ Idle
    /\ \E r \in R : ref_value' = r
    /\ UNCHANGED <<condition, operator, problem_id, list_of_problems,
                   scores, problems, compared, response, validation>>

SetProblemId(P) ==
    /\ Idle
    /\ \E p \in P : problem_id' = p
    /\ UNCHANGED <<condition, operator, ref_value, list_of_problems,
                   scores, problems, compared, response, validation>>

SetListOfProblems(L) ==
    /\ Idle
    /\ \E l \in L : list_of_problems' = l
    /\ UNCHANGED <<condition, operator, ref_value, problem_id,
                   scores, problems, compared, response, validation>>

\* the grading subsystem records (or re-records) the learner's score of a problem
RecordScore(P, maxTotal) ==
    /\ Idle
    /\ \E p \in P, sc \in ScoreValues(maxTotal) :
          scores' = [scores EXCEPT ![p] = sc]
    /\ UNCHANGED <<fields, problems, compared, response, validation>>

condition_status_handler ==
    /\ Idle
    /\ LET probs == SelectedProblems(condition, problem_id, list_of_problems)
           args == Aggregate(FetchedScores(scores, probs))
       IN /\ problems' = probs
          /\ compared' = IF args.kind = "Raised" THEN NoCall ELSE args
          /\ response' = HandlerResponse(condition, problem_id, list_of_problems,
                                         scores, operator, ref_value)
    /\ UNCHANGED <<fields, scores, validation>>

\* the response reaches the client and the request is over
Respond ==
    /\ response # NoResponse
    /\ response' = NoResponse
    /\ problems' = <<>>
    /\ compared' = NoCall
    /\ UNCHANGED <<fields, scores, validation>>

ValidateFieldData ==
    /\ Idle
    /\ \E t \in TabValues, r \in DataRefValues :
          LET data == [tab_to |-> t, ref_value |-> r]
          IN validation' = Validated(data, validate_field_data(data))
    /\ UNCHANGED <<fields, scores, problems, compared, response>>

ValidationDone ==
    /\ validation # NoValidation
    /\ validation' = NoValidation
    /\ UNCHANGED <<fields, scores, problems, compared, response>>

-----------------------------------------------------------------------------
(* Specifications *)

Init ==
    /\ condition = GradeOfAProblem
    /\ operator = "equal to"
    /\ ref_value = 0
    /\ problem_id = <<>>
    /\ list_of_problems = <<>>
    /\ scores = [p \in ProblemIds |-> None]
    /\ problems = <<>>
    /\ compared = NoCall
    /\ response = NoResponse
    /\ validation = NoValidation

\* the checkpoint with line-separated problem lists
Next ==
    \/ SetCondition(Conditions)
    \/ SetOperator(Operators)
    \/ SetRefValue(RefValues)
    \/ SetProblemId(ProblemIds)
    \/ SetListOfProblems(LineLists)
    \/ RecordScore(ProblemIds, MaxTotal)
    \/ condition_status_handler
    \/ Respond

Spec == Init /\ [][Next]_vars

\* one problem, every operator and every threshold
NextCompare ==
    \/ SetOperator(Operators)
    \/ SetRefValue(AllRefValues)
    \/ SetProblemId({<<"a">>})
    \/ RecordScore({<<"a">>}, MaxCompareTotal)
    \/ condition_status_handler
    \/ Respond

SpecCompare == Init /\ [][NextCompare]_vars

\* problem lists written with every separator the field's help names
NextList ==
    \/ SetCondition(conditions_generator)
    \/ SetOperator({"greater than or equal to", "less than"})
    \/ SetListOfProblems(SeparatedLists)
    \/ RecordScore(ProblemIds, MaxTotal)
    \/ condition_status_handler
    \/ Respond

SpecList == Init /\ [][NextList]_vars

\* the Studio editor validating candidate field data
NextValidate ==
    \/ ValidateFieldData
    \/ ValidationDone

SpecValidate == Init /\ [][NextValidate]_vars

-----------------------------------------------------------------------------
(* Properties *)

\* the relation an operator names, between x and y
Relation(op, x, y) ==
    CASE op = "equal to" -> x = y
      [] op = "not equal to" -> x # y
      [] op = "less than or equal to" -> x <= y
      [] op = "less than" -> x < y
      [] op = "greater than or equal to" -> x >= y
      [] op = "greater than" -> x > y

Complement(op) ==
    CASE op = "equal to" -> "not equal to"
      [] op = "not equal to" -> "equal to"
      [] op = "less than" -> "greater than or equal to"
      [] op = "greater than or equal to" -> "less than"
      [] op = "greater than" -> "less than or equal to"
      [] op = "less than or equal to" -> "greater than"

RECURSIVE SumOf(_, _)
SumOf(seq, attr) == IF seq = <<>> THEN 0 ELSE Head(seq)[attr] + SumOf(Tail(seq), attr)

RECURSIVE ProductOfTotals(_)
ProductOfTotals(seq) ==
    IF seq = <<>> THEN 1 ELSE Head(seq).total * ProductOfTotals(Tail(seq))

\* sum of correct_i / total_i, times the product of all totals
RECURSIVE SumOfFractions(_, _)
SumOfFractions(seq, product) ==
    IF seq = <<>> THEN 0
    ELSE Head(seq).correct * (product \div Head(seq).total) + SumOfFractions(Tail(seq), product)

\* the listed problems that have a recorded score, in the pending request
Scored == FetchedScores(scores, problems)

\* the ids of a list written with commas or line breaks
RECURSIVE IdsFrom(_, _, _)
IdsFrom(s, word, out) ==
    IF s = <<>>
    THEN IF word = <<>> THEN out ELSE Append(out, word)
    ELSE IF Head(s) \in Whitespace \cup {","}
         THEN IdsFrom(Tail(s), <<>>, IF word = <<>> THEN out ELSE Append(out, word))
         ELSE IdsFrom(Tail(s), Append(word, Head(s)), out)

ListedIds(s) == IdsFrom(s, <<>>, <<>>)

\* C1: with total # 0 and one of the six operators, the status is the truth
\* value of the operator's relation between the exact percentage
\* 100 * correct / total and ref_value (0..100)
C1_ExactPercentage ==
    (/\ response.kind = "Json"
     /\ compared.kind = "Compared"
     /\ compared.total # 0
     /\ operator \in operators_generator
     /\ ref_value \in RefMin..RefMax)
    => response.status =
         Relation(operator, 100 * compared.correct, ref_value * compared.total)

\* C2: with 'Average grade of a list of problems' the value compared is the
\* simple average of the listed problems' scores, each counting once with
\* equal weight: correct / total = (sum of correct_i / total_i) / n
C2_SimpleAverage ==
    (/\ response # NoResponse
     /\ condition = AverageOfAList
     /\ compared.kind = "Compared"
     /\ Len(problems) >= 1
     /\ Len(Scored) = Len(problems)
     /\ \A i \in 1..Len(Scored) : Scored[i].total # 0)
    => compared.correct * Len(Scored) * ProductOfTotals(Scored)
         = compared.total * SumOfFractions(Scored, ProductOfTotals(Scored))

\* C3: a list of ids joined by commas, line breaks or both is evaluated over
\* exactly those ids
C3_CommasAndLineBreaks ==
    (response # NoResponse /\ condition = AverageOfAList)
    => problems = ListedIds(list_of_problems)

\* C4: the tab error is reported iff tab_to <= 0, the score error iff
\* ref_value is outside 0..100, independently; valid data gets no message
C4_ValidationMessages ==
    validation.kind = "Validated" =>
        LET d == validation.data
            m == validation.messages
        IN /\ (ErrTab \in m) <=> ~(d.tab_to >= 1)
           /\ (ErrRef \in m) <=> (d.ref_value \notin 0..100)
           /\ (d.tab_to >= 1 /\ d.ref_value \in 0..100) => m = {}
           /\ m \subseteq {ErrTab, ErrRef}

C4_Witness ==
    /\ validation.kind = "Validated"
    /\ validation.data.tab_to <= 0
    /\ validation.data.ref_value > 100
    /\ validation.messages = {ErrTab, ErrRef}

\* C5: the handler always answers success = True with a Boolean status
C5_AlwaysResponds ==
    response # NoResponse =>
        /\ response.kind = "Json"
        /\ response.success = TRUE
        /\ response.status \in BOOLEAN

\* C6: with n >= 1 scored problems among the listed ones, compare_scores
\* receives the sums of their correct and total values
C6_SumsOfScored ==
    (response # NoResponse /\ Len(Scored) >= 1)
    => compared = Compared(SumOf(Scored, "correct"), SumOf(Scored, "total"))

\* C7: when no score is available (nothing scored, empty list, or an
\* aggregated total of 0) the status is False whatever the operator
C7_NoScoreIsFalse ==
    (response # NoResponse /\ SumOf(Scored, "total") = 0)
    => response = JsonResponse(FALSE)

\* C8: the condition field alone selects the input: 'Grade of a problem'
\* reads problem_id only, 'Average grade of a list of problems' reads
\* list_of_problems only, any other value gives an empty list and False
C8_SelectsByCondition ==
    response # NoResponse =>
        /\ condition = GradeOfAProblem =>
             /\ problems = split(problem_id)
             /\ \A l \in LineLists :
                   HandlerResponse(condition, problem_id, l, scores,
                                   operator, ref_value) = response
             /\ \A p \in ProblemIds \ {problem_id} :
                   \A sc \in ScoreValues(MaxTotal) \cup {None} :
                      HandlerResponse(condition, problem_id, list_of_problems,
                                      [scores EXCEPT ![p] = sc],
                                      operator, ref_value) = response
        /\ condition = AverageOfAList =>
             /\ problems = split(list_of_problems)
             /\ \A p \in ProblemIds \cup {<<>>} :
                   HandlerResponse(condition, p, list_of_problems, scores,
                                   operator, ref_value) = response
        /\ condition \notin conditions_generator =>
             /\ problems = <<>>
             /\ response = JsonResponse(FALSE)

C8_Witness ==
    /\ response = JsonResponse(TRUE)
    /\ condition = GradeOfAProblem
    /\ problem_id = <<"a">>
    /\ list_of_problems = <<"b">>
    /\ scores[<<"b">>] # None
    /\ scores[<<"a">>] # scores[<<"b">>]

\* C9: for total # 0 the operators come in complementary pairs (equal /
\* not equal, less than / greater than or equal, greater than / less than or
\* equal): exactly one of a pair yields True; an operator outside the six
\* yields False
C9_ComplementaryOperators ==
    (response.kind = "Json" /\ compared.kind = "Compared" /\ compared.total # 0) =>
        /\ operator \in operators_generator =>
             response.status #
               compare_scores(Complement(operator), ref_value,
                              compared.correct, compared.total)
        /\ operator \notin operators_generator => response.status = FALSE

C9_Witness ==
    /\ response = JsonResponse(TRUE)
    /\ operator = "less than or equal to"
    /\ compared.kind = "Compared"
    /\ compared.total # 0
    /\ Percentage(compared.correct, compared.total) = ref_value

====
